---- MODULE Spec2Model ----
(***************************************************************************)
(* Model of the request-authorization and booking-access pipeline:         *)
(*   restrictTo                       (role guard middleware)              *)
(*   getBookingHandler                (single booking, admin-or-owner)     *)
(*   getAllBookingsHandler            (unscoped listing)                   *)
(*   getMyBookingsHandler             (self-scoped listing)                *)
(*   getStripeCheckoutSessionHandler  (checkout session)                   *)
(* Each request occupies a slot.  A handler runs synchronously up to its   *)
(* next await; the awaited service call settles on its own (it is an       *)
(* external collaborator) and the handler then resumes and runs to its     *)
(* end.  Spec processes one request at a time over the full input domain;  *)
(* ConcSpec interleaves several requests through restrictTo and            *)
(* getBookingHandler.                                                      *)
(***************************************************************************)
EXTENDS Integers, Sequences, FiniteSets, TLC

(* ---------------------------- bounds ----------------------------------- *)
NumReq == 2
MaxRoles == 2
NumIdents == 2

(* ---------------------------- domains ---------------------------------- *)
Reqs == 1..NumReq

Roles == {"admin", "user", "guide"}

\* An identifier is an identity (val) carried in one of two representations:
\* a hex string or a database object identifier.
Reps == {"string", "ObjectId"}
Idents == 1..NumIdents
Ids == [rep : Reps, val : Idents]

Users == [_id : Ids, role : Roles]

\* res.locals.user values used when several requests are interleaved.
ConcUsers == {u \in Users : u._id.rep = "string" /\ u.role \in {"admin", "user"}}

\* Non-empty lists of allowed roles, as passed to restrictTo(...roles).
RoleLists == UNION {[1..n -> Roles] : n \in 1..MaxRoles}

\* Allowed-role lists used when several requests are interleaved.
ConcRoleLists == {l \in RoleLists : \A i \in 1..Len(l) : l[i] \in {"admin", "user"}}

BookingIds == {"b1", "b2"}

\* A booking document as returned by getBooking: only _id and user._id are read.
BookingDocs(bookingId) == {[_id |-> bookingId, user |-> [_id |-> o]] : o \in Ids}

ConcBookingDocs(bookingId) == {d \in BookingDocs(bookingId) : d.user._id = [rep |-> "ObjectId", val |-> 1]}

\* Errors an upstream service call can reject with.
UpstreamErrors == {[statusCode |-> 500, message |-> <<"database unavailable">>],
                   [statusCode |-> 404, message |-> <<"Cast to ObjectId failed">>]}

ConcUpstreamErrors == {[statusCode |-> 500, message |-> <<"database unavailable">>]}

\* A caller-supplied user id somewhere in params, query or body: none or one.
Supplied == {<<>>} \cup {<<i>> : i \in Ids}

TourIds == {"t1"}

Pending == [state |-> "pending", value |-> <<>>, reason |-> <<>>]

NoUser == [_id |-> [rep |-> "string", val |-> 0], role |-> "none"]

Queries == {"none", "sort=price"}

\* res.locals.queryFilterByTourId, set by an earlier middleware.
TourFilters == {"none", "t1"}

IdleReq == [handler |-> "none", user |-> NoUser, roles |-> <<>>, id |-> "none", supplied |-> <<>>, query |-> "none"]

NoCall == [fn |-> "none", arg |-> <<>>]

VARIABLES req, pc, call, promise, compared, nextCalls, response, logged

vars == <<req, pc, call, promise, compared, nextCalls, response, logged>>

(* ---------------------------- helpers ---------------------------------- *)

\* new AppError({ statusCode, message })
AppError(statusCode, message) == [statusCode |-> statusCode, message |-> message]

\* Variant: only the first allowed role is compared.
includesFirstOnly(roles, role) == Len(roles) > 0 /\ roles[1] = role

\* Array.prototype.includes
includes(roles, role) == \E i \in 1..Len(roles) : roles[i] = role

\* Array.prototype.join: the elements with the separator between neighbours.
RECURSIVE join(_, _)
join(roles, sep) ==
  IF Len(roles) = 0 THEN <<>>
  ELSE IF Len(roles) = 1 THEN <<roles[1]>>
  ELSE <<roles[1], sep>> \o join(Tail(roles), sep)

\* Variant: the message names only the first allowed role.
restrictToMessageFirstRole(roles) ==
  <<"Unauthorized - You don't have permissions. Access restricted to ">>
    \o join(SubSeq(roles, 1, 1), ", ") \o <<".">>

\* The template literal of the 403 raised by restrictTo.
restrictToMessage(roles) ==
  <<"Unauthorized - You don't have permissions. Access restricted to ">>
    \o join(roles, ", ") \o <<".">>

\* ObjectId.prototype.toString / String.prototype.toString: the hex string.
toString(id) == [rep |-> "string", val |-> id.val]

\* === : two strings are equal by value; an object is never === to a string,
\* nor to an object obtained from another document.
StrictEquals(a, b) == a.rep = "string" /\ b.rep = "string" /\ a.val = b.val

userIsAdmin(currentUserRole) == currentUserRole = "admin"

userIsBooker(booking, currentUserId) ==
  StrictEquals(toString(booking.user._id), currentUserId)

\* Variant: existence and authorization merged into one test, so that a
\* caller who is not admin is refused before the booking is known to exist.
getBookingDecisionMerged(booking, currentUserId, currentUserRole) ==
  IF ~userIsAdmin(currentUserRole) /\ (booking = <<>> \/ ~userIsBooker(booking[1], currentUserId))
    THEN [kind |-> "next",
          err |-> <<AppError(403, <<"You can only check a booking that you booked yourself, or you need to be Admin">>)>>,
          compared |-> TRUE]
    ELSE IF booking = <<>>
      THEN [kind |-> "next", err |-> <<AppError(404, <<"Booking not found">>)>>, compared |-> TRUE]
      ELSE [kind |-> "json", err |-> <<>>, compared |-> TRUE]

\* Lines 132-157 of getBookingHandler, run once the booking is fetched:
\* what is done (next(err) or res.json) and whether the admin/booker
\* comparison was evaluated on the way.
getBookingDecision(booking, currentUserId, currentUserRole) ==
  IF booking = <<>>
    THEN [kind |-> "next", err |-> <<AppError(404, <<"Booking not found">>)>>, compared |-> FALSE]
    ELSE IF ~userIsAdmin(currentUserRole) /\ ~userIsBooker(booking[1], currentUserId)
      THEN [kind |-> "next",
            err |-> <<AppError(403, <<"You can only check a booking that you booked yourself, or you need to be Admin">>)>>,
            compared |-> TRUE]
      ELSE [kind |-> "json", err |-> <<>>, compared |-> TRUE]

\* Variant: the resolved user is kept in one slot shared by all requests,
\* which holds the user of the oldest slot still in use.
currentUserShared(r) ==
  req[CHOOSE q \in Reqs : req[q].handler # "none" /\ \A o \in Reqs : req[o].handler # "none" => q <= o].user

\* res.locals.user of request r.
currentUser(r) == req[r].user

\* Variant: an id supplied by the caller overrides the resolved user's id.
myBookingsUserIdFromRequest(r) ==
  IF req[r].supplied # <<>> THEN req[r].supplied[1] ELSE req[r].user._id

\* Line 171: the id getMyBookingsHandler scopes the listing with.
myBookingsUserId(r) == currentUser(r)._id

\* Variant: the return in front of next(err) is missing.
restrictToCallsNoReturn(roles, currentUserRole) ==
  IF ~includes(roles, currentUserRole)
    THEN << <<AppError(403, restrictToMessage(roles))>>, <<>> >>
    ELSE << <<>> >>

\* Lines 17-27 of restrictTo: the calls of next it makes, in order.
restrictToCalls(roles, currentUserRole) ==
  IF ~includes(roles, currentUserRole)
    THEN << <<AppError(403, restrictToMessage(roles))>> >>
    ELSE << <<>> >>

\* next(...args) and res.status(s).json(body), recorded per request.
Forward(r, args) == nextCalls' = [nextCalls EXCEPT ![r] = Append(@, args)]

Send(r, status, body) ==
  response' = [response EXCEPT ![r] = Append(@, [status |-> status, body |-> body])]

\* logger.info(err)
LogInfo(err) == logged' = logged \cup {err}

Quiet(r) == \A q \in Reqs \ {r} : pc[q] = "idle"

(* ---------------------------- initial state ---------------------------- *)
Init ==
  /\ req = [r \in Reqs |-> IdleReq]
  /\ pc = [r \in Reqs |-> "idle"]
  /\ call = [r \in Reqs |-> NoCall]
  /\ promise = [r \in Reqs |-> Pending]
  /\ compared = [r \in Reqs |-> FALSE]
  /\ nextCalls = [r \in Reqs |-> <<>>]
  /\ response = [r \in Reqs |-> <<>>]
  /\ logged = {}

(* ---------------------------- restrictTo ------------------------------- *)
\* The middleware returned by restrictTo(...roles); it is synchronous.
restrictTo(r, users, lists) ==
  /\ pc[r] = "idle"
  /\ \E u \in users, roles \in lists :
       /\ req' = [req EXCEPT ![r] = [IdleReq EXCEPT !.handler = "restrictTo", !.user = u, !.roles = roles]]
       /\ nextCalls' = [nextCalls EXCEPT ![r] = @ \o restrictToCalls(roles, currentUser(r)'.role)]
  /\ pc' = [pc EXCEPT ![r] = "done"]
  /\ UNCHANGED <<call, promise, compared, response, logged>>

(* ---------------------------- service calls ---------------------------- *)
\* The values a service call can resolve with.
Fulfil(r, v) == promise' = [promise EXCEPT ![r] = [state |-> "fulfilled", value |-> v, reason |-> <<>>]]

Reject(r, e) == promise' = [promise EXCEPT ![r] = [state |-> "rejected", value |-> <<>>, reason |-> <<e>>]]

\* getBooking resolves with null (<<>>) or the document of the requested id.
getBookingSettles(r, docs, errors) ==
  /\ pc[r] = "await" /\ promise[r].state = "pending" /\ call[r].fn = "getBooking"
  /\ \/ Fulfil(r, <<>>)
     \/ \E d \in docs : d._id = call[r].arg._id /\ Fulfil(r, <<d>>)
     \/ \E e \in errors : Reject(r, e)
  /\ UNCHANGED <<req, pc, call, compared, nextCalls, response, logged>>

\* getAllBookings / getMyBookings resolve with a list of documents.
listSettles(r, errors) ==
  /\ pc[r] = "await" /\ promise[r].state = "pending"
  /\ call[r].fn \in {"getAllBookings", "getMyBookings"}
  /\ \/ \E n \in 0..1 : Fulfil(r, <<[i \in 1..n |-> "booking"]>>)
     \/ \E e \in errors : Reject(r, e)
  /\ UNCHANGED <<req, pc, call, compared, nextCalls, response, logged>>

\* getTour resolves with null (<<>>) or the tour.
getTourSettles(r, errors) ==
  /\ pc[r] = "await" /\ promise[r].state = "pending" /\ call[r].fn = "getTour"
  /\ \/ Fulfil(r, <<>>)
     \/ Fulfil(r, <<[_id |-> call[r].arg]>>)
     \/ \E e \in errors : Reject(r, e)
  /\ UNCHANGED <<req, pc, call, compared, nextCalls, response, logged>>

getStripeCheckoutSessionSettles(r, errors) ==
  /\ pc[r] = "await" /\ promise[r].state = "pending" /\ call[r].fn = "getStripeCheckoutSession"
  /\ \/ Fulfil(r, <<[id |-> "cs_1", tour |-> call[r].arg.tour]>>)
     \/ \E e \in errors : Reject(r, e)
  /\ UNCHANGED <<req, pc, call, compared, nextCalls, response, logged>>

(* ---------------------------- getBookingHandler ------------------------ *)
\* Lines 120-130: read params and res.locals.user, call getBooking, suspend.
getBookingHandler(r, users) ==
  /\ pc[r] = "idle"
  /\ \E u \in users, bookingId \in BookingIds :
       /\ req' = [req EXCEPT ![r] = [IdleReq EXCEPT !.handler = "getBookingHandler", !.user = u, !.id = bookingId]]
       /\ call' = [call EXCEPT ![r] = [fn |-> "getBooking", arg |-> [_id |-> bookingId]]]
  /\ pc' = [pc EXCEPT ![r] = "await"]
  /\ promise' = [promise EXCEPT ![r] = Pending]
  /\ UNCHANGED <<compared, nextCalls, response, logged>>

\* Variant: a failed fetch is reported as a missing booking.
getBookingCatchAs404(r) ==
  /\ LogInfo(promise[r].reason[1])
  /\ Forward(r, <<AppError(404, <<"Booking not found">>)>>)
  /\ UNCHANGED <<compared, response>>

\* Lines 158-161: the catch block.
getBookingCatch(r) ==
  /\ LogInfo(promise[r].reason[1])
  /\ Forward(r, promise[r].reason)
  /\ UNCHANGED <<compared, response>>

\* Lines 132-161: the continuation after the await, or the catch block.
getBookingResume(r) ==
  /\ pc[r] = "await" /\ req[r].handler = "getBookingHandler"
  /\ promise[r].state # "pending"
  /\ IF promise[r].state = "rejected"
       THEN getBookingCatch(r)
       ELSE LET d == getBookingDecision(promise[r].value, currentUser(r)._id, currentUser(r).role)
            IN /\ compared' = [compared EXCEPT ![r] = d.compared]
               /\ IF d.kind = "next"
                    THEN Forward(r, d.err) /\ UNCHANGED response
                    ELSE /\ Send(r, 200, [status |-> "success", data |-> [booking |-> promise[r].value[1]]])
                         /\ UNCHANGED nextCalls
               /\ UNCHANGED logged
  /\ pc' = [pc EXCEPT ![r] = "done"]
  /\ UNCHANGED <<req, call, promise>>

(* ---------------------------- getAllBookingsHandler -------------------- *)
getAllBookingsHandler(r, users) ==
  /\ pc[r] = "idle"
  /\ \E u \in users, q \in Queries, f \in TourFilters :
       /\ req' = [req EXCEPT ![r] = [IdleReq EXCEPT !.handler = "getAllBookingsHandler", !.user = u, !.id = f, !.query = q]]
       /\ call' = [call EXCEPT ![r] = [fn |-> "getAllBookings", arg |-> [queryFilterByTourId |-> f, query |-> q]]]
  /\ pc' = [pc EXCEPT ![r] = "await"]
  /\ promise' = [promise EXCEPT ![r] = Pending]
  /\ UNCHANGED <<compared, nextCalls, response, logged>>

\* Shared shape of lines 88-96 and 175-183: send the list, or catch and forward.
listResume(r, handler) ==
  /\ pc[r] = "await" /\ req[r].handler = handler
  /\ promise[r].state # "pending"
  /\ IF promise[r].state = "rejected"
       THEN /\ LogInfo(promise[r].reason[1])
            /\ Forward(r, promise[r].reason)
            /\ UNCHANGED response
       ELSE /\ Send(r, 200, [status |-> "success",
                             dataCount |-> Len(promise[r].value[1]),
                             data |-> [bookings |-> promise[r].value[1]]])
            /\ UNCHANGED <<nextCalls, logged>>
  /\ pc' = [pc EXCEPT ![r] = "done"]
  /\ UNCHANGED <<req, call, promise, compared>>

getAllBookingsResume(r) == listResume(r, "getAllBookingsHandler")

(* ---------------------------- getMyBookingsHandler --------------------- *)
getMyBookingsHandler(r, users) ==
  /\ pc[r] = "idle"
  /\ \E u \in users, s \in Supplied, q \in Queries :
       req' = [req EXCEPT ![r] = [IdleReq EXCEPT !.handler = "getMyBookingsHandler", !.user = u, !.supplied = s, !.query = q]]
  /\ call' = [call EXCEPT ![r] = [fn |-> "getMyBookings", arg |-> myBookingsUserId(r)']]
  /\ pc' = [pc EXCEPT ![r] = "await"]
  /\ promise' = [promise EXCEPT ![r] = Pending]
  /\ UNCHANGED <<compared, nextCalls, response, logged>>

getMyBookingsResume(r) == listResume(r, "getMyBookingsHandler")

(* ---------------------------- getStripeCheckoutSessionHandler ---------- *)
\* Lines 28-35: read params.tourId and res.locals.user, call getTour, suspend.
getStripeCheckoutSessionHandler(r, users) ==
  /\ pc[r] = "idle"
  /\ \E u \in users, tourId \in TourIds :
       /\ req' = [req EXCEPT ![r] = [IdleReq EXCEPT !.handler = "getStripeCheckoutSessionHandler", !.user = u, !.id = tourId]]
       /\ call' = [call EXCEPT ![r] = [fn |-> "getTour", arg |-> tourId]]
  /\ pc' = [pc EXCEPT ![r] = "await"]
  /\ promise' = [promise EXCEPT ![r] = Pending]
  /\ UNCHANGED <<compared, nextCalls, response, logged>>

\* Lines 36-45.  There is no try/catch in this handler: a rejected await
\* rejects the promise the handler returned and nothing else happens.
stripeAfterTour(r) ==
  /\ pc[r] = "await" /\ req[r].handler = "getStripeCheckoutSessionHandler"
  /\ call[r].fn = "getTour" /\ promise[r].state # "pending"
  /\ IF promise[r].state = "rejected"
       THEN /\ pc' = [pc EXCEPT ![r] = "rejected"]
            /\ UNCHANGED <<call, promise, nextCalls>>
       ELSE IF promise[r].value = <<>>
         THEN /\ Forward(r, <<AppError(404, <<"Tour not found">>)>>)
              /\ pc' = [pc EXCEPT ![r] = "done"]
              /\ UNCHANGED <<call, promise>>
         ELSE /\ call' = [call EXCEPT ![r] = [fn |-> "getStripeCheckoutSession",
                                               arg |-> [tour |-> promise[r].value[1], user |-> currentUser(r)]]]
              /\ promise' = [promise EXCEPT ![r] = Pending]
              /\ UNCHANGED <<pc, nextCalls>>
  /\ UNCHANGED <<req, compared, response, logged>>

\* Lines 47-53.
stripeAfterSession(r) ==
  /\ pc[r] = "await" /\ req[r].handler = "getStripeCheckoutSessionHandler"
  /\ call[r].fn = "getStripeCheckoutSession" /\ promise[r].state # "pending"
  /\ IF promise[r].state = "rejected"
       THEN /\ pc' = [pc EXCEPT ![r] = "rejected"]
            /\ UNCHANGED response
       ELSE /\ Send(r, 200, [status |-> "success", data |-> [stripeSession |-> promise[r].value[1]]])
            /\ pc' = [pc EXCEPT ![r] = "done"]
  /\ UNCHANGED <<req, call, promise, compared, nextCalls, logged>>

(* ---------------------------- end of a request ------------------------- *)
\* The request is over (answered, or its connection dropped): the slot and
\* its request-scoped data are gone.
Release(r) ==
  /\ pc[r] \in {"done", "rejected"}
  /\ req' = [req EXCEPT ![r] = IdleReq]
  /\ pc' = [pc EXCEPT ![r] = "idle"]
  /\ call' = [call EXCEPT ![r] = NoCall]
  /\ promise' = [promise EXCEPT ![r] = Pending]
  /\ compared' = [compared EXCEPT ![r] = FALSE]
  /\ nextCalls' = [nextCalls EXCEPT ![r] = <<>>]
  /\ response' = [response EXCEPT ![r] = <<>>]
  /\ UNCHANGED logged

(* ---------------------------- specifications --------------------------- *)
\* One request at a time, every handler, the full input domain.
Next ==
  \E r \in Reqs :
    \/ Quiet(r) /\ restrictTo(r, Users, RoleLists)
    \/ Quiet(r) /\ getBookingHandler(r, Users)
    \/ getBookingSettles(r, BookingDocs(req[r].id), UpstreamErrors)
    \/ getBookingResume(r)
    \/ Quiet(r) /\ getAllBookingsHandler(r, Users)
    \/ Quiet(r) /\ getMyBookingsHandler(r, Users)
    \/ listSettles(r, UpstreamErrors)
    \/ getAllBookingsResume(r)
    \/ getMyBookingsResume(r)
    \/ Quiet(r) /\ getStripeCheckoutSessionHandler(r, Users)
    \/ getTourSettles(r, UpstreamErrors)
    \/ getStripeCheckoutSessionSettles(r, UpstreamErrors)
    \/ stripeAfterTour(r)
    \/ stripeAfterSession(r)
    \/ Release(r)

Spec == Init /\ [][Next]_vars

\* Requests through restrictTo and getBookingHandler, interleaved freely.
ConcNext ==
  \E r \in Reqs :
    \/ restrictTo(r, ConcUsers, ConcRoleLists)
    \/ getBookingHandler(r, ConcUsers)
    \/ getBookingSettles(r, ConcBookingDocs(req[r].id), ConcUpstreamErrors)
    \/ getBookingResume(r)
    \/ Release(r)

ConcSpec == Init /\ [][ConcNext]_vars

(* ---------------------------- properties ---------------------------- *)
Done(r, handler) == pc[r] = "done" /\ req[r].handler = handler

RangeOf(seq) == {seq[i] : i \in 1..Len(seq)}

\* The request ended with exactly one next(err), err carrying statusCode.
ForwardedStatus(r, statusCode) ==
  /\ Len(nextCalls[r]) = 1
  /\ Len(nextCalls[r][1]) = 1
  /\ nextCalls[r][1][1].statusCode = statusCode

\* The request ended with exactly one success response and no call of next.
Succeeded(r) ==
  /\ nextCalls[r] = <<>>
  /\ Len(response[r]) = 1
  /\ response[r][1].status = 200
  /\ response[r][1].body.status = "success"

\* The two ids denote the same identity, whatever their representation.
SameIdentity(a, b) == a.val = b.val

\* C1: the role guard calls next() with no error iff the current user's
\* role is in the allowed list; otherwise it forwards a 403 error and does
\* not pass control on as a success.
C1_RoleGuard ==
  \A r \in Reqs : Done(r, "restrictTo") =>
    /\ response[r] = <<>>
    /\ (req[r].user.role \in RangeOf(req[r].roles)) <=> (nextCalls[r] = << <<>> >>)
    /\ (req[r].user.role \notin RangeOf(req[r].roles)) => ForwardedStatus(r, 403)

C1_Witness ==
  \E r \in Reqs :
    /\ Done(r, "restrictTo")
    /\ Len(req[r].roles) = 2
    /\ req[r].roles[1] # req[r].user.role
    /\ req[r].roles[2] = req[r].user.role
    /\ nextCalls[r] = << <<>> >>

\* C2: when the booking lookup returns nothing, getBookingHandler forwards
\* a 404 for every current user, admin included, without having evaluated
\* the admin/owner comparison, and never a 403 or a success response.
C2_MissingBookingIs404 ==
  \A r \in Reqs :
    (Done(r, "getBookingHandler") /\ promise[r].state = "fulfilled" /\ promise[r].value = <<>>) =>
      /\ ForwardedStatus(r, 404)
      /\ response[r] = <<>>
      /\ ~compared[r]

C2_Witness ==
  \E r \in Reqs :
    /\ Done(r, "getBookingHandler")
    /\ promise[r].state = "fulfilled" /\ promise[r].value = <<>>
    /\ req[r].user.role = "user"
    /\ ForwardedStatus(r, 404)

\* C3: for an existing booking, getBookingHandler answers with the booking
\* iff the current user is admin or has the identity of the booking's
\* owner; in every other case it forwards a 403.
C3_AdminOrOwner ==
  \A r \in Reqs :
    (Done(r, "getBookingHandler") /\ promise[r].state = "fulfilled" /\ promise[r].value # <<>>) =>
      LET allowed == \/ req[r].user.role = "admin"
                     \/ SameIdentity(req[r].user._id, promise[r].value[1].user._id)
      IN /\ allowed <=> (Succeeded(r) /\ response[r][1].body.data.booking = promise[r].value[1])
         /\ ~allowed => (ForwardedStatus(r, 403) /\ response[r] = <<>>)

\* C4: the id getMyBookingsHandler passes to getMyBookings is the id of
\* res.locals.user, whatever id the caller supplied in the request.
C4_SelfScoped ==
  \A r \in Reqs :
    (req[r].handler = "getMyBookingsHandler" /\ pc[r] # "idle") =>
      /\ call[r].fn = "getMyBookings"
      /\ call[r].arg = req[r].user._id

C4_Witness ==
  \E r \in Reqs :
    /\ Done(r, "getMyBookingsHandler")
    /\ req[r].supplied # <<>>
    /\ req[r].supplied[1] # req[r].user._id
    /\ ~SameIdentity(req[r].supplied[1], req[r].user._id)
    /\ Succeeded(r)

\* C5: a current user with role user whose id denotes the identity of the
\* booking's owner is recognised as owner and gets the booking, whichever
\* representation either id arrives in.
C5_OwnerRecognised ==
  \A r \in Reqs :
    (/\ Done(r, "getBookingHandler")
     /\ promise[r].state = "fulfilled" /\ promise[r].value # <<>>
     /\ req[r].user.role = "user"
     /\ SameIdentity(req[r].user._id, promise[r].value[1].user._id)) => Succeeded(r)

\* C6: a request through restrictTo or getBookingHandler makes no call of
\* next and writes no response while it is in flight, and ends with exactly
\* one of the two: one call of next or one response, never both, never two.
C6_ExactlyOneOutcome ==
  \A r \in Reqs :
    req[r].handler \in {"restrictTo", "getBookingHandler"} =>
      /\ pc[r] = "done" => Len(nextCalls[r]) + Len(response[r]) = 1
      /\ pc[r] # "done" => Len(nextCalls[r]) + Len(response[r]) = 0

C6_Witness ==
  \E r \in Reqs :
    /\ Done(r, "restrictTo")
    /\ ForwardedStatus(r, 403)
    /\ response[r] = <<>>

\* C7: when the fetch of getBookingHandler, getAllBookingsHandler or
\* getMyBookingsHandler rejects, the handler forwards that very error to
\* next, once, and writes no response.
C7_FetchErrorPassedThrough ==
  \A r \in Reqs :
    (/\ pc[r] = "done"
     /\ req[r].handler \in {"getBookingHandler", "getAllBookingsHandler", "getMyBookingsHandler"}
     /\ promise[r].state = "rejected") =>
      /\ nextCalls[r] = <<promise[r].reason>>
      /\ response[r] = <<>>

C7_Witness ==
  \E r \in Reqs :
    /\ Done(r, "getBookingHandler")
    /\ promise[r].state = "rejected"
    /\ promise[r].reason[1].statusCode = 500
    /\ nextCalls[r] = <<promise[r].reason>>

\* C8: the message of the 403 forwarded by restrictTo names every allowed
\* role, in the configured order, and does not name the caller's own role.
C8_DenialNamesAllowedRoles ==
  \A r \in Reqs :
    (Done(r, "restrictTo") /\ ForwardedStatus(r, 403)) =>
      LET message == nextCalls[r][1][1].message
      IN /\ SelectSeq(message, LAMBDA t : t \in Roles) = req[r].roles
         /\ req[r].user.role \notin RangeOf(message)

C8_Witness ==
  \E r \in Reqs :
    /\ Done(r, "restrictTo")
    /\ ForwardedStatus(r, 403)
    /\ Len(req[r].roles) = 2
    /\ req[r].roles[1] # req[r].roles[2]

\* What a request gets when it is evaluated alone from its own current
\* user, allowed roles and fetched booking: <<calls of next, responses>>.
AloneOutcome(rq, pr) ==
  IF rq.handler = "restrictTo"
    THEN <<restrictToCalls(rq.roles, rq.user.role), <<>>>>
    ELSE IF pr.state = "rejected"
      THEN << <<pr.reason>>, <<>> >>
      ELSE LET d == getBookingDecision(pr.value, rq.user._id, rq.user.role)
           IN IF d.kind = "next"
                THEN << <<d.err>>, <<>> >>
                ELSE << <<>>, <<[status |-> 200, body |-> [status |-> "success", data |-> [booking |-> pr.value[1]]]]>> >>

\* C9: in every interleaving of requests through restrictTo and
\* getBookingHandler, a request that finishes gets the outcome it gets when
\* evaluated alone, and no step changes the allowed roles, the current user
\* or the fetched booking of a request in flight.
C9_RequestIndependence ==
  [][\A r \in Reqs :
       /\ (pc[r] # "idle" /\ pc'[r] # "idle") =>
            /\ req'[r] = req[r]
            /\ (promise[r].state # "pending" => promise'[r] = promise[r])
       /\ (pc[r] # "done" /\ pc'[r] = "done") =>
            <<nextCalls'[r], response'[r]>> = AloneOutcome(req'[r], promise'[r])]_vars

C9_Witness ==
  \E r, q \in Reqs :
    /\ r # q
    /\ Done(r, "getBookingHandler") /\ ForwardedStatus(r, 403)
    /\ req[q].handler = "getBookingHandler" /\ pc[q] = "await"
    /\ promise[q].state = "fulfilled" /\ promise[q].value # <<>>
    /\ req[q].user.role = "admin"
    /\ req[q].id = req[r].id

\* C10: once getStripeCheckoutSessionHandler has run to its end, whether
\* its awaits fulfilled or rejected, it has sent a response or forwarded an
\* error to next.
C10_StripeAlwaysAnswers ==
  \A r \in Reqs :
    (req[r].handler = "getStripeCheckoutSessionHandler" /\ pc[r] \in {"done", "rejected"}) =>
      Len(nextCalls[r]) + Len(response[r]) >= 1

====
